---- MODULE Spec2Model ----
(***************************************************************************)
(* Token issuance and refresh rotation of the dispatcher's auth routes     *)
(* (dispatcher/backend/src/routes/auth/__init__.py).                       *)
(*                                                                         *)
(* Every request is served by its own worker inside one database           *)
(* transaction (with Session.begin() as session).  The workers share the   *)
(* User and Refreshtoken tables and the wall clock read by getnow().  One  *)
(* action of the model is one statement sent to the database, one clock    *)
(* read, or the end of the transaction (commit, or rollback when the       *)
(* handler raises).                                                        *)
(***************************************************************************)
EXTENDS Integers, FiniteSets, Sequences, TLC

(***************************************************************************)
(* Bounds of the model.                                                    *)
(***************************************************************************)
MaxTime == 2        \* the clock runs from 0 to MaxTime
MaxTokens == 3      \* refresh tokens generated in one behaviour

Workers == {"w1", "w2"}          \* concurrent request workers
UserIds == {1}                   \* ids of the rows of the User table
UserNames == {"alice", "bob"}    \* usernames a client sends
Passwords == {"secret123", "hunter2"}   \* passwords a client sends

None == -1                       \* Python's None, for tokens and ids
NoName == "None"                 \* Python's None, for header strings
NoRow == [token |-> None, user_id |-> None, expire_time |-> None]

\* Lifetime of a refresh token: generate_refresh_token stores
\* expire_time = getnow() + TTL.
TTL == 1

\* Lifetime of an access token: AccessToken.encode_db signs a payload that
\* expires at getnow() + AccessTTL.
AccessTTL == 1
NoAccess == [user_id |-> None, exp |-> None, sig |-> <<>>]

\* The User table as it is seeded: username and password hash of each id.
\* Id 1 is alice; bob, id 2, has an account only where the table holds it.
UserName(u) == IF u = 1 THEN "alice" ELSE "bob"
generate_password_hash(pw) == <<"pbkdf2", pw>>
PasswordHash(u) == IF u = 1 THEN generate_password_hash("secret123")
                            ELSE generate_password_hash("hunter2")

\* a verification that accepts every password
check_password_hash_Always(pwhash, password) == TRUE

\* werkzeug.security.check_password_hash(pwhash, password)
check_password_hash(pwhash, password) == pwhash = generate_password_hash(password)

VARIABLES
    users,        \* ids of the committed rows of the User table
    rows,         \* committed rows of the Refreshtoken table
    now,          \* the clock getnow() reads
    pc,           \* per worker: where its handler stands
    req,          \* per worker: the request (headers or form) it serves
    old_token_document,  \* per worker: row found at line 88
    orm_user,     \* per worker: user id found at line 40 or 100
    access_token, \* per worker: access token minted at line 53 or 107
    refresh_token_new,   \* per worker: token generated at line 55 or 108
    check_now,    \* per worker: getnow() of line 96
    gc_now,       \* per worker: getnow() of line 113
    ins,          \* per worker: rows inserted, not yet committed
    del,          \* per worker: rows deleted (and locked), not yet committed
    last,         \* the response of the request that has just ended
    issued,       \* history: the rows ever committed
    rotated,      \* history: <<old, new>> of every refresh exchange that succeeded
    rejected,     \* history: tokens an exchange has refused as expired
    lastGC,       \* history: getnow() of the latest committed bulk DELETE
    minted        \* history: the access tokens the envelopes have carried

locals == <<pc, req, old_token_document, orm_user, access_token,
            refresh_token_new, check_now, gc_now, ins, del>>
shared == <<users, rows, now>>
hist == <<issued, rotated, rejected, lastGC, minted>>
vars == <<shared, locals, last, hist>>

NoReq == [kind |-> "none", username |-> NoName, password |-> NoName,
          refresh_token |-> None, orphan |-> FALSE]
NoLast == [kind |-> "none", result |-> "none", step |-> "none",
           user_id |-> None, old_token |-> None, refresh_token |-> None,
           access_token |-> NoAccess]

InFlight(p) == pc[p] # "idle"
Tokens(S) == {r.token : r \in S}
Consumed == {x[1] : x \in rotated}

Init ==
    /\ users = UserIds
    /\ rows = {}
    /\ now = 0
    /\ pc = [p \in Workers |-> "idle"]
    /\ req = [p \in Workers |-> NoReq]
    /\ old_token_document = [p \in Workers |-> NoRow]
    /\ orm_user = [p \in Workers |-> None]
    /\ access_token = [p \in Workers |-> NoAccess]
    /\ refresh_token_new = [p \in Workers |-> None]
    /\ check_now = [p \in Workers |-> None]
    /\ gc_now = [p \in Workers |-> None]
    /\ ins = [p \in Workers |-> {}]
    /\ del = [p \in Workers |-> {}]
    /\ last = NoLast
    /\ issued = {}
    /\ rotated = {}
    /\ rejected = {}
    /\ lastGC = None
    /\ minted = {}

(***************************************************************************)
(* What a statement of worker p reads.  The transactions run at            *)
(* PostgreSQL's default isolation level, READ COMMITTED: a statement reads *)
(* the rows committed when it runs, and the transaction's own inserts and  *)
(* deletes.  The SELECTs of the handlers take no row lock.                 *)
(***************************************************************************)
VisibleRows(p) == (rows \ del[p]) \cup ins[p]

\* Rows another open transaction has deleted: they stay locked until it ends.
LockedByOthers(p) == UNION {del[q] : q \in Workers \ {p}}

\* a lookup whose WHERE clause is lost: it returns whatever row there is
SelectToken_AnyRow(p, token) ==
    IF VisibleRows(p) # {}
    THEN CHOOSE r \in VisibleRows(p) : TRUE
    ELSE NoRow

\* sa.select(dbm.Refreshtoken).where(token == old_token).scalar_one_or_none()
SelectToken(p, token) ==
    IF \E r \in VisibleRows(p) : r.token = token
    THEN CHOOSE r \in VisibleRows(p) : r.token = token
    ELSE NoRow

\* a user lookup whose WHERE clause is lost: it returns whatever user there is
SelectUserById_AnyUser(user_id) ==
    IF users # {} THEN CHOOSE u \in users : TRUE ELSE None

\* the token row's user id trusted without looking the user up
SelectUserById_Unchecked(user_id) == user_id

\* sa.select(dbm.User).where(dbm.User.id == user_id).scalar_one_or_none()
SelectUserById(user_id) == IF user_id \in users THEN user_id ELSE None

\* sa.select(dbm.User).where(dbm.User.username == username).scalar_one_or_none()
SelectUserByName(username) ==
    IF \E u \in users : UserName(u) = username
    THEN CHOOSE u \in users : UserName(u) = username
    ELSE None

\* the expiry test left out
Expired_Never(expire_time, t) == FALSE

\* the comparison written the wrong way round
Expired_Reversed(expire_time, t) == t < expire_time

\* the comparison taken to include the expiry instant itself
Expired_OrEqual(expire_time, t) == expire_time <= t

\* expire_time < getnow(), the test of line 96 and the filter of line 113
Expired(expire_time, t) == expire_time < t

\* Token strings are random: a new one equals no token ever stored and no
\* token of an open transaction.
UsedTokens == Tokens(issued) \cup Tokens(UNION {ins[q] : q \in Workers})
CanGenerate == \E t \in 1 .. MaxTokens : t \notin UsedTokens
FreshToken == CHOOSE t \in 1 .. MaxTokens :
                 /\ t \notin UsedTokens
                 /\ \A t2 \in 1 .. (t - 1) : t2 \in UsedTokens

\* The signature of an access token: a keyed digest of its payload.
Sign(user_id, exp) == <<"HS256", user_id, exp>>

\* AccessToken.encode_db(orm_user): the payload and its signature
encode_db(user_id) ==
    [user_id |-> user_id, exp |-> now + AccessTTL,
     sig |-> Sign(user_id, now + AccessTTL)]

\* AccessToken.decode(token): the payload's user id, or None for the
\* Unauthorized it raises when the signature does not fit the payload or
\* the expiry has passed
decode(token) ==
    IF token.sig = Sign(token.user_id, token.exp) /\ ~(token.exp < now)
    THEN token.user_id
    ELSE None

\* OAuth2.generate_refresh_token(user_id, session): the row it adds
NewRow(user_id) ==
    [token |-> FreshToken, user_id |-> user_id, expire_time |-> now + TTL]

\* a commit that renews the expire time of the rows it leaves in the table
CommittedRows_Touch(p) ==
    {[r EXCEPT !.expire_time = now + TTL] : r \in rows \ del[p]} \cup ins[p]

\* a commit that ends the user's other sessions when it stores a new row
CommittedRows_SingleSession(p) ==
    {r \in rows \ del[p] : \A n \in ins[p] : r.user_id # n.user_id} \cup ins[p]

\* a commit that loses the transaction's DELETEs
CommittedRows_KeepDeleted(p) == rows \cup ins[p]

\* The Refreshtoken table after worker p's transaction commits / rolls back.
CommittedRows(p) == (rows \ del[p]) \cup ins[p]

\* a rollback that undoes the INSERT but not the DELETEs
RolledBackRows_ApplyDeletes(p) == rows \ del[p]

\* a rollback after which the expired rows are collected all the same
RolledBackRows_CollectExpired(p) ==
    {r \in rows : ~Expired(r.expire_time, now)}

RolledBackRows(p) == rows

(***************************************************************************)
(* The end of a transaction.  An exception leaving the with block rolls    *)
(* the transaction back and becomes the error response; leaving it         *)
(* normally commits and the handler returns the envelope.  Either way the  *)
(* worker is free for the next request.                                    *)
(***************************************************************************)
Release(p) ==
    /\ pc' = [pc EXCEPT ![p] = "idle"]
    /\ req' = [req EXCEPT ![p] = NoReq]
    /\ old_token_document' = [old_token_document EXCEPT ![p] = NoRow]
    /\ orm_user' = [orm_user EXCEPT ![p] = None]
    /\ access_token' = [access_token EXCEPT ![p] = NoAccess]
    /\ refresh_token_new' = [refresh_token_new EXCEPT ![p] = None]
    /\ check_now' = [check_now EXCEPT ![p] = None]
    /\ gc_now' = [gc_now EXCEPT ![p] = None]
    /\ ins' = [ins EXCEPT ![p] = {}]
    /\ del' = [del EXCEPT ![p] = {}]

\* the handler serving request r raises err
Fail(p, r, err) ==
    /\ rows' = RolledBackRows(p)
    /\ last' = [NoLast EXCEPT !.kind = r.kind, !.result = err, !.step = pc[p],
                              !.old_token = r.refresh_token]
    /\ issued' = issued \cup (rows' \ rows)
    /\ rejected' = IF err = "Unauthorized: token expired"
                   THEN rejected \cup {r.refresh_token} ELSE rejected
    /\ Release(p)
    /\ UNCHANGED <<users, now, rotated, lastGC, minted>>

Raise(p, err) == Fail(p, req[p], err)

\* the handler moves on to its next statement; no request ends in this step
Goto(p, label) ==
    /\ pc' = [pc EXCEPT ![p] = label]
    /\ last' = NoLast

(***************************************************************************)
(* refresh_token / _refresh_token_inner                                    *)
(***************************************************************************)
\* the request carrying old_token in its refresh-token header, with what is
\* true of that token when the request arrives
RefreshRequest(old_token) ==
    [NoReq EXCEPT !.kind = "refresh", !.refresh_token = old_token,
                  !.orphan = \E r \in issued :
                                 r.token = old_token /\ r.user_id \notin users]

\* lines 76-92: the request arrives, the transaction opens, the header is
\* read and the row is looked up
RefreshBegin(p, old_token) ==
    /\ pc[p] = "idle"
    /\ LET r == RefreshRequest(old_token)
           doc == SelectToken(p, old_token)
       IN
       IF old_token = None
       THEN Fail(p, r, "BadRequest: missing refresh-token")
       ELSE IF doc = NoRow
       THEN Fail(p, r, "Unauthorized: refresh-token invalid")
       ELSE /\ req' = [req EXCEPT ![p] = r]
            /\ old_token_document' = [old_token_document EXCEPT ![p] = doc]
            /\ Goto(p, "r_expiry")
            /\ UNCHANGED <<shared, hist, orm_user, access_token,
                           refresh_token_new, check_now, gc_now, ins, del>>

\* lines 95-97
RefreshExpiry(p) ==
    /\ pc[p] = "r_expiry"
    /\ IF Expired(old_token_document[p].expire_time, now)
       THEN Raise(p, "Unauthorized: token expired")
       ELSE /\ check_now' = [check_now EXCEPT ![p] = now]
            /\ Goto(p, "r_user")
            /\ UNCHANGED <<shared, hist, req, old_token_document, orm_user,
                           access_token, refresh_token_new, gc_now, ins, del>>

\* lines 100-104
RefreshUser(p) ==
    /\ pc[p] = "r_user"
    /\ LET u == SelectUserById(old_token_document[p].user_id) IN
       IF u = None
       THEN Raise(p, "Unauthorized: user not found")
       ELSE /\ orm_user' = [orm_user EXCEPT ![p] = u]
            /\ Goto(p, "r_write")
            /\ UNCHANGED <<shared, hist, req, old_token_document, access_token,
                           refresh_token_new, check_now, gc_now, ins, del>>

(***************************************************************************)
(* lines 106-114.  generate_refresh_token adds the new row to the session  *)
(* (line 107 mints the access token, which touches no state).  Then one    *)
(* call of session.execute: getnow() is read while the bulk DELETE is      *)
(* built; the call flushes the pending INSERT and the session.delete of    *)
(* the old row and sends the bulk DELETE.  A DELETE waits for a row        *)
(* another open transaction has deleted; when that transaction has         *)
(* committed, the DELETE matches no row, which the unit of work answers    *)
(* with a warning, not an exception.                                       *)
(***************************************************************************)
\* the bulk DELETE without its WHERE clause: every row is deleted
DeleteTargets_AllRows(p) == {old_token_document[p]} \cup VisibleRows(p)

\* line 111 left out: only the expired rows are deleted
DeleteTargets_OnlyExpired(p) ==
    {r \in VisibleRows(p) : Expired(r.expire_time, now)}

\* a DELETE that ends every session of the token's user
DeleteTargets_UserRows(p) ==
    {r \in VisibleRows(p) : r.user_id = old_token_document[p].user_id}
        \cup {r \in VisibleRows(p) : Expired(r.expire_time, now)}

\* the bulk DELETE of lines 112-114 left out: only the old row is deleted
DeleteTargets_OnlyOld(p) == {old_token_document[p]}

\* rows of worker p's view that the two DELETEs of line 112 address
DeleteTargets(p) ==
    {old_token_document[p]}
        \cup {r \in VisibleRows(p) : Expired(r.expire_time, now)}

RefreshWrite(p) ==
    /\ pc[p] = "r_write"
    /\ CanGenerate
    /\ DeleteTargets(p) \cap LockedByOthers(p) = {}
    /\ access_token' = [access_token EXCEPT ![p] = encode_db(orm_user[p])]
    /\ refresh_token_new' = [refresh_token_new EXCEPT ![p] = FreshToken]
    /\ gc_now' = [gc_now EXCEPT ![p] = now]
    /\ del' = [del EXCEPT ![p] = @ \cup (DeleteTargets(p) \cap rows)]
    /\ ins' = [ins EXCEPT ![p] = (@ \cup {NewRow(orm_user[p])}) \ DeleteTargets(p)]
    /\ Goto(p, "r_commit")
    /\ UNCHANGED <<shared, hist, req, old_token_document, orm_user,
                   check_now>>

\* leaving the with block of line 76 or line 24, then lines 116-126 / 57-67
Commit(p, at) ==
    /\ pc[p] = at
    /\ rows' = CommittedRows(p)
    /\ last' = [kind |-> req[p].kind, result |-> "ok", step |-> pc[p],
                user_id |-> orm_user[p],
                old_token |-> req[p].refresh_token,
                refresh_token |-> refresh_token_new[p],
                access_token |-> access_token[p]]
    /\ issued' = issued \cup (rows' \ rows)
    /\ rotated' = IF req[p].kind = "refresh"
                  THEN rotated \cup {<<req[p].refresh_token, refresh_token_new[p]>>}
                  ELSE rotated
    /\ lastGC' = IF req[p].kind = "refresh" THEN gc_now[p] ELSE lastGC
    /\ minted' = minted \cup {access_token[p]}
    /\ Release(p)
    /\ UNCHANGED <<users, now, rejected>>

RefreshCommit(p) == Commit(p, "r_commit")

(***************************************************************************)
(* credentials / _credentials_inner                                        *)
(***************************************************************************)
CredentialsRequest(username, password) ==
    [NoReq EXCEPT !.kind = "credentials", !.username = username,
                  !.password = password]

\* lines 24-55: the request arrives, the transaction opens, the user is
\* looked up and verified, the tokens are generated
CredentialsBegin(p, username, password) ==
    /\ pc[p] = "idle"
    /\ LET r == CredentialsRequest(username, password)
           u == SelectUserByName(username)
       IN
       IF username = NoName \/ password = NoName
       THEN Fail(p, r, "BadRequest: missing username or password")
       ELSE IF u = None
       THEN Fail(p, r, "Unauthorized: this user does not exist")
       ELSE IF ~check_password_hash(PasswordHash(u), password)
       THEN Fail(p, r, "Unauthorized: password does not match")
       ELSE /\ CanGenerate
            /\ req' = [req EXCEPT ![p] = r]
            /\ orm_user' = [orm_user EXCEPT ![p] = u]
            /\ access_token' = [access_token EXCEPT ![p] = encode_db(u)]
            /\ ins' = [ins EXCEPT ![p] = {NewRow(u)}]
            /\ refresh_token_new' = [refresh_token_new EXCEPT ![p] = FreshToken]
            /\ Goto(p, "c_commit")
            /\ UNCHANGED <<shared, hist, old_token_document, check_now,
                           gc_now, del>>

CredentialsCommit(p) == Commit(p, "c_commit")

(***************************************************************************)
(* The environment of the handlers.                                        *)
(***************************************************************************)
\* The worker is killed or loses its connection: the transaction rolls back.
Abort(p) ==
    /\ InFlight(p)
    /\ Raise(p, "ServerError: aborted")

\* Time passes.  A token lives for days and a request for a moment: the
\* clock does not advance while a transaction that has generated a token is
\* still open.
Tick ==
    /\ now < MaxTime
    /\ \A p \in Workers : ins[p] = {}
    /\ now' = now + 1
    /\ last' = NoLast
    /\ UNCHANGED <<users, rows, hist, locals>>

\* Account management deletes a user.
DeleteUser(u) ==
    /\ u \in users
    /\ users' = users \ {u}
    /\ last' = NoLast
    /\ UNCHANGED <<rows, now, hist, locals>>

\* What a client can put in the refresh-token header: nothing, or any
\* string: one the store will never generate, one it has generated, one it
\* has yet to generate.
Forged == 0
PresentableTokens == {None, Forged} \cup (1 .. MaxTokens)

\* the handler without its @authenticate decorator
test_Unauthenticated(token) ==
    /\ last' = [NoLast EXCEPT !.kind = "test", !.result = "NoContent",
                              !.user_id = token.user_id,
                              !.access_token = token]
    /\ UNCHANGED <<shared, hist, locals>>

(***************************************************************************)
(* test: the route behind @authenticate.  The decorator decodes the access *)
(* token of the request; the handler answers 204 No Content.  No table is  *)
(* read or written.                                                        *)
(***************************************************************************)
test(token) ==
    /\ last' = [NoLast EXCEPT
                   !.kind = "test",
                   !.result = IF decode(token) # None
                              THEN "NoContent"
                              ELSE "Unauthorized: invalid or expired token",
                   !.user_id = decode(token),
                   !.access_token = token]
    /\ UNCHANGED <<shared, hist, locals>>

\* What a client can put in the Authorization header: an access token an
\* envelope has carried, or one of these with its payload altered: the
\* expiry moved beyond the end of time, or the user id changed.
TamperedTokens ==
    {[t EXCEPT !.exp = MaxTime + AccessTTL + 1] : t \in minted}
        \cup {[t EXCEPT !.user_id = 3 - t.user_id] : t \in minted}
PresentableAccessTokens == minted \cup TamperedTokens

Next ==
    \/ \E p \in Workers, t \in PresentableTokens : RefreshBegin(p, t)
    \/ \E p \in Workers : RefreshExpiry(p)
    \/ \E p \in Workers : RefreshUser(p)
    \/ \E p \in Workers : RefreshWrite(p)
    \/ \E p \in Workers : RefreshCommit(p)
    \/ \E p \in Workers, n \in UserNames \cup {NoName}, w \in Passwords \cup {NoName} :
          CredentialsBegin(p, n, w)
    \/ \E p \in Workers : CredentialsCommit(p)
    \/ \E p \in Workers : Abort(p)
    \/ Tick
    \/ \E u \in UserIds : DeleteUser(u)

Spec == Init /\ [][Next]_vars

(***************************************************************************)
(* The same handlers serving two accounts, one request at a time, and the  *)
(* test route.                                                             *)
(***************************************************************************)
SeqUserIds == {1, 2}
SeqWorkers == {"w1"}

InitSeq ==
    /\ users = SeqUserIds
    /\ rows = {}
    /\ now = 0
    /\ pc = [p \in Workers |-> "idle"]
    /\ req = [p \in Workers |-> NoReq]
    /\ old_token_document = [p \in Workers |-> NoRow]
    /\ orm_user = [p \in Workers |-> None]
    /\ access_token = [p \in Workers |-> NoAccess]
    /\ refresh_token_new = [p \in Workers |-> None]
    /\ check_now = [p \in Workers |-> None]
    /\ gc_now = [p \in Workers |-> None]
    /\ ins = [p \in Workers |-> {}]
    /\ del = [p \in Workers |-> {}]
    /\ last = NoLast
    /\ issued = {}
    /\ rotated = {}
    /\ rejected = {}
    /\ lastGC = None
    /\ minted = {}

NextSeq ==
    \/ \E p \in SeqWorkers, t \in PresentableTokens : RefreshBegin(p, t)
    \/ \E p \in SeqWorkers : RefreshExpiry(p)
    \/ \E p \in SeqWorkers : RefreshUser(p)
    \/ \E p \in SeqWorkers : RefreshWrite(p)
    \/ \E p \in SeqWorkers : RefreshCommit(p)
    \/ \E p \in SeqWorkers, n \in UserNames \cup {NoName}, w \in Passwords \cup {NoName} :
          CredentialsBegin(p, n, w)
    \/ \E p \in SeqWorkers : CredentialsCommit(p)
    \/ \E p \in SeqWorkers : Abort(p)
    \/ \E token \in PresentableAccessTokens : test(token)
    \/ Tick
    \/ \E u \in SeqUserIds : DeleteUser(u)

SpecSeq == InitSeq /\ [][NextSeq]_vars

(***************************************************************************)
(* Concurrent refresh exchanges over sessions that are already open: the   *)
(* table holds the rows of three logins made at time 0, two of alice (two  *)
(* devices) and one of bob, and both workers serve refresh requests that   *)
(* present the tokens of these logins, each of them any number of times.   *)
(***************************************************************************)
OpenSessions ==
    {[token |-> 4, user_id |-> 1, expire_time |-> TTL],
     [token |-> 5, user_id |-> 1, expire_time |-> TTL],
     [token |-> 6, user_id |-> 2, expire_time |-> TTL]}

InitSessions ==
    /\ users = SeqUserIds
    /\ rows = OpenSessions
    /\ now = 0
    /\ pc = [p \in Workers |-> "idle"]
    /\ req = [p \in Workers |-> NoReq]
    /\ old_token_document = [p \in Workers |-> NoRow]
    /\ orm_user = [p \in Workers |-> None]
    /\ access_token = [p \in Workers |-> NoAccess]
    /\ refresh_token_new = [p \in Workers |-> None]
    /\ check_now = [p \in Workers |-> None]
    /\ gc_now = [p \in Workers |-> None]
    /\ ins = [p \in Workers |-> {}]
    /\ del = [p \in Workers |-> {}]
    /\ last = NoLast
    /\ issued = OpenSessions
    /\ rotated = {}
    /\ rejected = {}
    /\ lastGC = None
    /\ minted = {encode_db(u) : u \in SeqUserIds}

NextSessions ==
    \/ \E p \in Workers, t \in Tokens(OpenSessions) : RefreshBegin(p, t)
    \/ \E p \in Workers : RefreshExpiry(p)
    \/ \E p \in Workers : RefreshUser(p)
    \/ \E p \in Workers : RefreshWrite(p)
    \/ \E p \in Workers : RefreshCommit(p)
    \/ \E p \in Workers : Abort(p)
    \/ Tick

SpecSessions == InitSessions /\ [][NextSessions]_vars

(***************************************************************************)
(* Properties                                                              *)
(***************************************************************************)
Invalid == "Unauthorized: refresh-token invalid"
TokenExpired == "Unauthorized: token expired"
UserNotFound == "Unauthorized: user not found"
Aborted == "ServerError: aborted"

\* the refresh exchanges that have succeeded presenting token t
Exchanges(t) == {x \in rotated : x[1] = t}

\* C1: single use under a race - of the refresh exchanges presenting one
\* token, at most one succeeds, however the requests interleave.
C1_SingleUseUnderRace ==
    \A t \in Tokens(issued) : Cardinality(Exchanges(t)) <= 1

\* C2: sequential replay is rejected - a refresh exchange that arrives
\* presenting a token some exchange has already succeeded with fails with
\* Unauthorized("refresh-token invalid").
C2_ReplayRejected ==
    [][\A p \in Workers : \A t \in Consumed :
          RefreshBegin(p, t) =>
              /\ last'.kind = "refresh"
              /\ last'.old_token = t
              /\ last'.result = Invalid]_vars

C2_Witness ==
    /\ last.kind = "refresh"
    /\ last.old_token \in Consumed
    /\ last.result = Invalid

\* C3: rotation - right after a refresh exchange presenting T has returned
\* its envelope, the envelope's refresh token differs from T, T is not a row
\* of the table and the envelope's refresh token is.
C3_Rotation ==
    (last.kind = "refresh" /\ last.result = "ok") =>
        /\ last.refresh_token # last.old_token
        /\ last.old_token \notin Tokens(rows)
        /\ last.refresh_token \in Tokens(rows)

C3_Witness ==
    /\ last.kind = "refresh"
    /\ last.result = "ok"
    /\ last.old_token \in Tokens(issued)

\* C4: all-or-nothing rotation - in every state, also after an exchange has
\* failed or was aborted at any step, a stored token that is gone from the
\* table before its expiry was presented to an exchange that succeeded, and
\* the replacement that exchange returned was stored.
C4_AllOrNothing ==
    \A r \in issued :
        (r \notin rows /\ r.expire_time >= now) =>
            \E x \in rotated : x[1] = r.token /\ x[2] \in Tokens(issued)

\* an exchange was aborted after it had sent its INSERT and DELETEs, and the
\* token it presented is still there, unconsumed
C4_Witness ==
    /\ last.kind = "refresh"
    /\ last.result = Aborted
    /\ last.step = "r_commit"
    /\ last.old_token \in Tokens(rows)
    /\ last.old_token \notin Consumed

\* C5: expiry - the exchange that finds its row's expire time in the past
\* fails with Unauthorized("token expired"), changes no row and generates no
\* token; and when the next exchange that runs the bulk DELETE has
\* committed, no row of a token rejected as expired is left.
C5_Expiry ==
    [][\A p \in Workers :
          /\ (RefreshExpiry(p) /\ old_token_document[p].expire_time < now) =>
                 /\ last'.kind = "refresh"
                 /\ last'.result = TokenExpired
                 /\ last'.old_token = old_token_document[p].token
                 /\ last'.refresh_token = None
                 /\ rows' = rows
                 /\ issued' = issued
                 /\ ins'[p] = {}
          /\ RefreshCommit(p) => rejected \cap Tokens(rows') = {}]_vars

\* a token was rejected as expired and a later exchange has collected it
C5_Witness ==
    /\ last.kind = "refresh"
    /\ last.result = "ok"
    /\ \E r \in issued \ rows : r.token \in rejected /\ r.token \notin Consumed

\* C6: expiry boundary - the exchange that finds its row's expire time equal
\* to the current time fails with Unauthorized("token expired").
C6_ExpiryBoundary ==
    [][\A p \in Workers :
          (RefreshExpiry(p) /\ old_token_document[p].expire_time = now) =>
              /\ last'.kind = "refresh"
              /\ last'.result = TokenExpired]_vars

\* C6 as amended: the exchange that finds its row's expire time equal to
\* the current time is not rejected as expired - its check passes and it goes
\* on to look up the user; it fails with Unauthorized("token expired") only
\* when the expire time is strictly earlier than the current time.
C6_ExpiryBoundaryStrict ==
    [][\A p \in Workers :
          /\ (RefreshExpiry(p) /\ old_token_document[p].expire_time = now) =>
                 /\ pc'[p] = "r_user"
                 /\ last' = NoLast
                 /\ rows' = rows
          /\ (RefreshExpiry(p) /\ old_token_document[p].expire_time < now) =>
                 /\ last'.kind = "refresh"
                 /\ last'.result = TokenExpired]_vars

\* an exchange whose expiry check read the very expire time of its row has
\* gone on to generate its tokens
C6_Witness ==
    \E p \in Workers :
        /\ pc[p] = "r_commit"
        /\ check_now[p] = old_token_document[p].expire_time
        /\ refresh_token_new[p] # None

\* C7: never issued - a refresh exchange presenting a string that is the token
\* of no row the table ever held fails with Unauthorized("refresh-token
\* invalid") and leaves the table as it was.
C7_NeverIssued ==
    [][\A p \in Workers : \A t \in PresentableTokens \ {None} :
          (RefreshBegin(p, t) /\ t \notin Tokens(issued)) =>
              /\ last'.kind = "refresh"
              /\ last'.old_token = t
              /\ last'.result = Invalid
              /\ rows' = rows
              /\ issued' = issued
              /\ ins'[p] = {}]_vars

\* a string of no stored row was presented while the table held rows
C7_Witness ==
    /\ last.kind = "refresh"
    /\ last.result = Invalid
    /\ last.old_token # None
    /\ last.old_token \notin Tokens(issued)
    /\ rows # {}

\* C8: row presence - in every state, a row is in the table exactly when it
\* was stored, no successful exchange has presented its token, and it was not
\* expired at the time the most recent committed bulk DELETE read.
C8_RowPresence ==
    \A r \in issued \cup rows :
        r \in rows <=>
            /\ r \in issued
            /\ r.token \notin Consumed
            /\ ~(lastGC # None /\ r.expire_time < lastGC)

\* rows of all three kinds: one present, one consumed, one collected
C8_Witness ==
    /\ rows # {}
    /\ \E r \in issued \ rows : r.token \in Consumed
    /\ \E r \in issued \ rows : r.token \notin Consumed /\ r.expire_time < lastGC

\* C9: deleted account - the exchange that finds no user for its row's user
\* id fails with Unauthorized("user not found"), generates no token and
\* changes no row; and no exchange commits whose token belonged, when the
\* request arrived, to a user already gone.
C9_DeletedAccount ==
    [][\A p \in Workers :
          /\ (RefreshUser(p) /\ old_token_document[p].user_id \notin users) =>
                 /\ last'.kind = "refresh"
                 /\ last'.result = UserNotFound
                 /\ last'.old_token = old_token_document[p].token
                 /\ last'.refresh_token = None
                 /\ rows' = rows
                 /\ issued' = issued
                 /\ ins'[p] = {}
          /\ RefreshCommit(p) => ~req[p].orphan]_vars

\* the token refused is a live one: its unexpired row is still in the table
C9_Witness ==
    /\ last.kind = "refresh"
    /\ last.result = UserNotFound
    /\ \E r \in rows : r.token = last.old_token /\ r.expire_time >= now
    /\ users = {}

\* C10: credential exchange outcomes - BadRequest("missing username or
\* password") when either field is absent, else Unauthorized("this user does
\* not exist") when no user has the username, else Unauthorized("password
\* does not match") when the password is not the user's, else the exchange
\* goes on to generate tokens and its commit returns the envelope and stores
\* the row; a credential exchange that fails leaves the table as it was.
C10_CredentialOutcomes ==
    [][\A p \in Workers :
          /\ \A n \in UserNames \cup {NoName}, w \in Passwords \cup {NoName} :
                CredentialsBegin(p, n, w) =>
                    IF n = NoName \/ w = NoName
                    THEN /\ last'.result = "BadRequest: missing username or password"
                         /\ rows' = rows /\ ins'[p] = {}
                    ELSE IF ~(n = "alice" /\ 1 \in users)
                    THEN /\ last'.result = "Unauthorized: this user does not exist"
                         /\ rows' = rows /\ ins'[p] = {}
                    ELSE IF w # "secret123"
                    THEN /\ last'.result = "Unauthorized: password does not match"
                         /\ rows' = rows /\ ins'[p] = {}
                    ELSE /\ pc'[p] = "c_commit"
                         /\ last' = NoLast
                         /\ \E r \in ins'[p] : r.user_id = 1
          /\ CredentialsCommit(p) =>
                /\ last'.kind = "credentials"
                /\ last'.result = "ok"
                /\ last'.refresh_token \in Tokens(rows') \ Tokens(rows)
                /\ req[p].username = "alice"
                /\ req[p].password = "secret123"
          /\ (last'.kind = "credentials" /\ last'.result # "ok") =>
                /\ rows' = rows
                /\ issued' = issued]_vars

\* a wrong password was refused while the table held rows
C10_Witness ==
    /\ last.kind = "credentials"
    /\ last.result = "Unauthorized: password does not match"
    /\ rows # {}

\* C11: garbage collection on refresh - when a refresh exchange has
\* committed, the table holds no row whose expire time is before the time
\* its bulk DELETE read, whoever owns the row: a row that was expired and
\* present before the commit is absent after it.
C11_GarbageCollection ==
    [][\A p \in Workers :
          RefreshCommit(p) =>
              /\ \A r \in rows' : ~(r.expire_time < gc_now[p])
              /\ \A r \in rows : r.expire_time < now => r \notin rows']_vars

\* the exchange of one user's token has collected the other user's expired,
\* never exchanged row
C11_Witness ==
    /\ last.kind = "refresh"
    /\ last.result = "ok"
    /\ \E r \in issued \ rows :
          /\ r.token \notin Consumed
          /\ r.expire_time < lastGC
          /\ r.user_id # last.user_id

\* C12: uniform issuance - the refresh token an envelope carries, from a
\* credential exchange or from a refresh exchange, is a row of the table
\* owned by the user the exchange authenticated, and every stored token, of
\* either origin, is exchanged successfully at most once and is absent once
\* exchanged.
C12_UniformIssuance ==
    /\ (last.result = "ok" /\ last.kind \in {"credentials", "refresh"}) =>
           \E r \in rows :
               r.token = last.refresh_token /\ r.user_id = last.user_id
    /\ \A t \in Tokens(issued) :
           /\ Cardinality(Exchanges(t)) <= 1
           /\ t \in Consumed => t \notin Tokens(rows)

\* C13: access-token validity window - the access token of an envelope
\* decodes, when minted, to the user the exchange authenticated; presented
\* to the test route before its expiry it is accepted as that user, and
\* after its expiry it is refused with Unauthorized, whatever the tables
\* hold by then.
C13_AccessTokenWindow ==
    [][/\ (last'.result = "ok" /\ last'.kind \in {"credentials", "refresh"}) =>
              /\ decode(last'.access_token) = last'.user_id
              /\ last'.access_token.exp = now + AccessTTL
       /\ \A token \in minted :
              test(token) =>
                  /\ now < token.exp =>
                         /\ last'.result = "NoContent"
                         /\ last'.user_id = token.user_id
                  /\ now > token.exp =>
                         /\ last'.result = "Unauthorized: invalid or expired token"
                         /\ last'.user_id = None]_vars

\* an access token is accepted after the refresh token issued with it was
\* exchanged
C13_Witness ==
    /\ last.kind = "test"
    /\ last.result = "NoContent"
    /\ last.access_token \in minted
    /\ \E r \in issued \ rows :
          /\ r.token \in Consumed
          /\ r.user_id = last.user_id
          /\ r.expire_time = last.access_token.exp

\* C14: consume before mint - the row of the presented token is deleted in
\* the transaction that inserts its replacement: no statement of another
\* request reads both the presented token and its replacement, while the
\* exchange is open or after it has committed.
C14_ConsumeWithMint ==
    \A q \in Workers :
        /\ \A x \in rotated :
               ~({x[1], x[2]} \subseteq Tokens(VisibleRows(q)))
        /\ \A p \in Workers \ {q} :
               pc[p] = "r_commit" =>
                   ~({old_token_document[p].token, refresh_token_new[p]}
                         \subseteq Tokens(VisibleRows(q)))

\* an open exchange has sent its INSERT and its DELETE: the other requests
\* still read the presented token and do not read the replacement
C14_Witness ==
    \E p \in Workers :
        /\ pc[p] = "r_commit"
        /\ old_token_document[p] \in del[p]
        /\ \A q \in Workers \ {p} :
              /\ old_token_document[p].token \in Tokens(VisibleRows(q))
              /\ refresh_token_new[p] \notin Tokens(VisibleRows(q))

\* C15: a failed refresh exchange changes nothing - when a refresh exchange
\* ends in BadRequest or Unauthorized, the table after it is the table
\* before it: the expired row it presented and every other expired row are
\* still there, and no bulk DELETE has taken effect.
C15_FailedRefreshFrame ==
    [][/\ (/\ last'.kind = "refresh"
           /\ last'.result \in {"BadRequest: missing refresh-token", Invalid,
                                TokenExpired, UserNotFound}) =>
              /\ rows' = rows
              /\ issued' = issued
              /\ lastGC' = lastGC
       /\ \A p \in Workers :
              (RefreshExpiry(p) /\ old_token_document[p].expire_time < now) =>
                  /\ old_token_document[p] \in rows => old_token_document[p] \in rows'
                  /\ \A r \in rows : r.expire_time < now => r \in rows']_vars

\* the expired token just refused is still a row of the table
C15_Witness ==
    /\ last.kind = "refresh"
    /\ last.result = TokenExpired
    /\ \E r \in rows : r.token = last.old_token /\ r.expire_time < now

\* C16: rows are created or deleted, never mutated - in every step a row of
\* the table is either the same row as before or carries a token no row
\* has carried before; a row leaves the table only in the commit of a
\* successful exchange, as the token presented or as an expired row; and a
\* token whose row is gone is the token of no row afterwards.
C16_CreateOrDeleteOnly ==
    [][/\ \A r \in rows' : r \in rows \/ r.token \notin Tokens(issued)
       /\ \A r \in rows \ rows' :
              /\ last'.kind = "refresh"
              /\ last'.result = "ok"
              /\ r.token = last'.old_token \/ r.expire_time < now
       /\ \A r \in issued \ rows : r.token \notin Tokens(rows')]_vars

\* a token in each state: consumed and absent, expired but present, live
C16_Witness ==
    /\ \E r \in issued \ rows : r.token \in Consumed
    /\ \E r \in rows : r.expire_time < now
    /\ \E r \in rows : r.expire_time >= now

\* C17: error precedence in the refresh exchange - without a refresh-token
\* header the request ends in BadRequest("missing refresh-token") whatever
\* the tables hold; with a token that is no row of the table it ends in
\* "refresh-token invalid"; an exchange that finds its row expired ends in
\* "token expired", also when the row's user is gone; and "user not found"
\* ends only an exchange whose row was found and had passed the expiry test.
C17_ErrorPrecedence ==
    [][\A p \in Workers :
          /\ RefreshBegin(p, None) =>
                 last'.result = "BadRequest: missing refresh-token"
          /\ \A t \in PresentableTokens \ {None} :
                 (RefreshBegin(p, t) /\ t \notin Tokens(rows)) =>
                     last'.result = Invalid
          /\ (RefreshExpiry(p) /\ old_token_document[p].expire_time < now) =>
                 last'.result = TokenExpired
          /\ (/\ pc[p] # "idle" /\ pc'[p] = "idle"
              /\ last'.kind = "refresh" /\ last'.result = UserNotFound) =>
                 /\ pc[p] = "r_user"
                 /\ old_token_document[p] \in issued
                 /\ check_now[p] <= old_token_document[p].expire_time
                 /\ old_token_document[p].user_id \notin users]_vars

\* the token refused as expired belongs to a user who is gone
C17_Witness ==
    /\ last.kind = "refresh"
    /\ last.result = TokenExpired
    /\ \E r \in rows : r.token = last.old_token /\ r.user_id \notin users

\* C18: frame of a successful refresh exchange - its commit removes no row
\* but the one presented and the rows expired when its bulk DELETE read the
\* clock, and adds exactly one row, the one of the token it returns; every
\* other unexpired row, of the same user or of another, stays as it is, so
\* the row an open exchange has found is still there as long as it is
\* unexpired and no exchange has consumed it.
C18_SuccessfulRefreshFrame ==
    [][/\ \A p \in Workers :
              RefreshCommit(p) =>
                  /\ \A r \in rows \ rows' :
                         \/ r = old_token_document[p]
                         \/ r.expire_time < gc_now[p]
                  /\ \E n \in rows' :
                         /\ rows' \ rows = {n}
                         /\ n.token = last'.refresh_token
                  /\ \A r \in rows :
                         (r # old_token_document[p] /\ r.expire_time >= now) =>
                             r \in rows'
       /\ \A q \in Workers :
              (/\ pc'[q] \in {"r_expiry", "r_user", "r_write", "r_commit"}
               /\ old_token_document'[q].expire_time >= now'
               /\ old_token_document'[q].token \notin Consumed') =>
                  old_token_document'[q] \in rows']_vars

\* one exchange has committed while another, presenting a live token of
\* another user, is about to commit; a second session of the first user is
\* untouched
C18_Witness ==
    /\ last.kind = "refresh"
    /\ last.result = "ok"
    /\ \E q \in Workers :
          /\ pc[q] = "r_commit"
          /\ old_token_document[q] \in rows
          /\ old_token_document[q].token # last.old_token
          /\ old_token_document[q].user_id # last.user_id
    /\ \E r \in rows \cap OpenSessions : r.user_id = last.user_id

\* C19: rotation preserves ownership - the row a refresh exchange adds has
\* the user id of the row it presented, the access token of its envelope
\* decodes to that user id, and so every pair of tokens linked by an
\* exchange has one owner.
C19_RotationKeepsOwner ==
    [][/\ \A p \in Workers :
              RefreshCommit(p) =>
                  /\ \E n \in rows' \ rows :
                         /\ n.token = last'.refresh_token
                         /\ n.user_id = old_token_document[p].user_id
                  /\ last'.user_id = old_token_document[p].user_id
                  /\ decode(last'.access_token) = old_token_document[p].user_id
       /\ \A a \in issued', b \in issued' :
              <<a.token, b.token>> \in rotated' => a.user_id = b.user_id]_vars

\* bob's token has been exchanged while the table holds a row of alice
C19_Witness ==
    /\ last.kind = "refresh"
    /\ last.result = "ok"
    /\ last.user_id = 2
    /\ \E r \in rows : r.token = last.refresh_token /\ r.user_id = 2
    /\ \E r \in rows : r.user_id = 1
    /\ users = SeqUserIds

\* C20: frame of a successful credential exchange - its commit adds exactly
\* one row, carrying the token of the envelope and the id of the user whose
\* name and password the request gave, and removes or changes no row; and in
\* every state the rows of the table carry pairwise different tokens, also
\* when two issuances are open at once.
C20_CredentialFrame ==
    [][/\ \A p \in Workers :
              CredentialsCommit(p) =>
                  /\ rows \subseteq rows'
                  /\ \E n \in rows' :
                         /\ rows' \ rows = {n}
                         /\ n.token = last'.refresh_token
                         /\ n.user_id = last'.user_id
                         /\ req[p].username = "alice" => n.user_id = 1
                         /\ req[p].username = "bob" => n.user_id = 2
       /\ \A a \in rows', b \in rows' : a.token = b.token => a = b
       /\ \A p \in Workers, q \in Workers :
              (p # q /\ refresh_token_new'[p] # None) =>
                  refresh_token_new'[p] # refresh_token_new'[q]]_vars

\* a login has committed next to the row of an earlier login while another
\* login is open
C20_Witness ==
    /\ last.kind = "credentials"
    /\ last.result = "ok"
    /\ Cardinality(rows) >= 2
    /\ \E q \in Workers : pc[q] = "c_commit"

====
